---- MODULE Spec2Model ----
(***************************************************************************)
(* Model of the camera client: the CameraStream component (state hooks,   *)
(* async command handlers, status poll, feed image and its timers) and    *)
(* the CameraModeSelector child component.  Every async handler is split  *)
(* at its await points: the part up to the fetch is one action, the part  *)
(* that runs when the fetch settles is another.                           *)
(***************************************************************************)
EXTENDS Bags, FiniteSets, Integers, Sequences, TLC

\* ------------------------------------------------------------------ bounds
MaxStatus == 2
MaxTimers == 1
MaxRecReqs == 2
MaxDuration == 1

\* --------------------------------------------------------------- constants
\* null of a string state or field, and null of an object state
Null == "null"
NullObj == [null |-> TRUE]

ErrStatusHttp == "Camera server not responding"
ErrStatusNet == "Cannot connect to camera server. Make sure it's running on port 5000."
ErrStartHttp == "Failed to start camera streaming"
ErrStartNet == "Error starting camera stream. Make sure the camera server is running."
ErrStopHttp == "Failed to stop camera streaming"
ErrStopNet == "Error stopping camera stream"
ErrRestartHttp == "Failed to restart camera"
ErrRestartNet == "Error restarting camera"
ErrFeed == "Failed to load camera stream. Try restarting the camera."
ErrCaptureHttp == "Failed to capture picture"
ErrCaptureNet == "Error capturing picture. Make sure the camera server is running."
ErrRecStartHttp == "Failed to start recording"
ErrRecStartNet == "Error starting recording. Make sure the camera server is running."
ErrRecStopHttp == "Failed to stop recording"
ErrRecStopNet == "Error stopping recording. Make sure the camera server is running."
ErrModesHttp == "Failed to fetch camera modes"
ErrModesNet == "Cannot connect to camera server"
ErrModeHttp == "Failed to change camera mode"
ErrModeNet == "Error changing camera mode"
\* the text a non-2xx response carries in its {error} body
ServerMsg == "server error"

\* ----------------------------------------------------- inputs (responses)
\* Outcome of one fetch: "ok" 2xx with a well-formed body, "okBad" 2xx whose
\* body is not the expected JSON, "http" non-2xx without an error body,
\* "httpMsg" non-2xx with {error: ServerMsg}, "net" the fetch rejects.
Outcomes == {"ok", "okBad", "http", "httpMsg", "net"}

\* GET /api/camera/status bodies (last_access is display-only and left out)
StatusIdle ==
    [status |-> "active", streaming |-> TRUE, current_mode |-> "m1",
     recording |-> [recording |-> FALSE, duration |-> 0]]
StatusRecording ==
    [status |-> "active", streaming |-> TRUE, current_mode |-> "m2",
     recording |-> [recording |-> TRUE, duration |-> 1]]
\* a body without the recording field
StatusBare == [status |-> "inactive", streaming |-> FALSE, current_mode |-> Null]
StatusBodies == {StatusIdle, StatusRecording, StatusBare}

\* POST /api/camera/capture bodies
CapturedP1 == [filename |-> "p1.jpg", url |-> "/pictures/p1.jpg", timestamp |-> "t1"]
CapturedP2 == [filename |-> "p2.jpg", url |-> "/pictures/p2.jpg", timestamp |-> "t2"]
CaptureBodies == {CapturedP1, CapturedP2}

\* POST /api/camera/recording/start bodies
StartedV1 == [filename |-> "v1.mp4"]
StartedV2 == [filename |-> "v2.mp4"]
RecStartBodies == {StartedV1, StartedV2}

\* POST /api/camera/recording/stop bodies; the second is a 2xx body without
\* the duration field
SavedV1 == [filename |-> "v1.mp4", url |-> "/recordings/v1.mp4", duration |-> 1]
SavedV2NoDuration == [filename |-> "v2.mp4", url |-> "/recordings/v2.mp4"]
RecStopBodies == {SavedV1, SavedV2NoDuration}

Mode1 == [id |-> "m1", width |-> 1920, height |-> 1080, framerate |-> 30]
Mode2 == [id |-> "m2", width |-> 640, height |-> 480, framerate |-> 60]
\* GET /api/camera/modes bodies
ModesBodies ==
    { [available_modes |-> <<Mode1, Mode2>>,
       current_mode |-> [width |-> 1920, height |-> 1080, framerate |-> 30]],
      [available_modes |-> <<Mode1>>,
       current_mode |-> [width |-> 320, height |-> 240, framerate |-> 15]] }
ModeIds == {"m1", "m2"}
\* the arguments changeMode is called with: a mode id, or the empty string
ModeInputs == ModeIds \cup {""}

\* "retryStale" is a "retry" callback whose stream was stopped after it was
\* scheduled; the callback itself is the same
\* "poll" is the setInterval of the mount effect (L560), registered while the
\* component is mounted
TimerKinds == {"startOpen", "startCheck", "restartOpen", "retry", "retryStale",
               "clearCapture", "clearRecStart", "clearRecStop", "poll"}

\* ------------------------------------------------------------------- state
VARIABLES
    \* CameraStream useState hooks
    isStreaming, cameraStatus, isLoading, error, isServerConnected,
    isCapturing, lastCapturedImage, captureSuccess,
    isRecording, recordingDuration, lastRecording, recordingSuccess,
    \* the feed <img>: "none" no src assigned (or img not mounted),
    \* "loading" stream URL assigned, "loaded" onLoad fired, "errored" onError fired
    feed,
    \* CameraModeSelector useState hooks
    modes, currentMode, selectedModeId, modesLoading, isChanging, modeError,
    \* fetches in flight: status fetches in issue order, the others as a bag
    statusReqs, cmdReqs,
    \* pending setTimeout callbacks, per kind
    timers,
    \* number of consecutive feed re-opens by the error retry with no load between
    retryOpens,
    \* Gallery useState hooks (isLoading and error of the Gallery component)
    galleryData, galleryIsLoading, galleryError,
    \* the Promise.all fetchGalleryData awaits: NullObj when no call is awaiting,
    \* else what each of its two fetches has answered so far
    galleryFetch,
    \* fetches of a call that has already ended (its other fetch rejected)
    galleryOrphans

csVars == <<isStreaming, cameraStatus, isLoading, error, isServerConnected>>
capVars == <<isCapturing, lastCapturedImage, captureSuccess>>
recVars == <<isRecording, recordingDuration, lastRecording, recordingSuccess>>
msVars == <<modes, currentMode, selectedModeId, modesLoading, isChanging, modeError>>
galVars == <<galleryData, galleryIsLoading, galleryError, galleryFetch, galleryOrphans>>
vars == <<csVars, capVars, recVars, feed, msVars, statusReqs, cmdReqs, timers, retryOpens,
          galVars>>

\* ----------------------------------------------------------------- helpers
\* the component is mounted: its interval has not been cleared by the cleanup
\* of the mount effect (L561)
mounted == timers["poll"] > 0
\* imgRef.current: the <img> is rendered only while isStreaming
imgRefCurrent == mounted /\ isStreaming

Req(kind) == [kind |-> kind, cap |-> FALSE, modeId |-> Null]
InFlight(kind) == {r \in BagToSet(cmdReqs) : r.kind = kind}
RECURSIVE SumCopies(_)
SumCopies(S) ==
    IF S = {} THEN 0
    ELSE LET r == CHOOSE x \in S : TRUE
         IN CopiesIn(r, cmdReqs) + SumCopies(S \ {r})
NumInFlight(kind) == SumCopies(InFlight(kind))
Send(r) == cmdReqs (+) SetToBag({r})
Settle(r) == cmdReqs (-) SetToBag({r})

\* a status fetch issued now; the two flags are bookkeeping about the fetch:
\* superseded - the response of a later-issued status fetch was applied since,
\* stale - a recording command was confirmed since
StatusReq(owner, cap) ==
    [owner |-> owner, cap |-> cap, superseded |-> FALSE, stale |-> FALSE]
RemoveAt(s, i) == SubSeq(s, 1, i - 1) \o SubSeq(s, i + 1, Len(s))
MarkEarlier(s, i) ==
    [j \in DOMAIN s |-> IF j < i THEN [s[j] EXCEPT !.superseded = TRUE] ELSE s[j]]
MarkStale(s) == [j \in DOMAIN s |-> [s[j] EXCEPT !.stale = TRUE]]

AddTimer(t, kind) == [t EXCEPT ![kind] = @ + 1]
\* bookkeeping when the stream ends: the retries pending now outlive it
StaleRetries(t) == [t EXCEPT !["retryStale"] = @ + t["retry"], !["retry"] = 0]
DelTimer(t, kind) == [t EXCEPT ![kind] = @ - 1]

\* status fetches in flight plus those that pending work will still issue
StatusLoad ==
    Len(statusReqs) + timers["startOpen"] + timers["startCheck"]
    + NumInFlight("start") + NumInFlight("restart") + NumInFlight("mode")

\* ------------------------------------------ Gallery inputs (Gallery.tsx)
MaxOrphans == 1

ErrGalleryFetch == "Failed to fetch gallery data"
ErrGalleryConnect == "Error connecting to camera server"

\* what one fetch of the Promise.all has answered
Pending == [kind |-> "pending"]
PicturesBodies ==
    {[pictures |-> <<"p1.jpg">>], [pictures |-> <<"p1.jpg", "p2.jpg">>], [count |-> 0]}
RecordingsBodies ==
    {[recordings |-> <<"v1.mp4">>], [recordings |-> <<"v1.mp4", "v2.mp4">>], [count |-> 0]}
\* "ok": 2xx with a JSON body; "okBad": 2xx whose body is not JSON;
\* "http": non-2xx; "net": the fetch rejects
PicturesResponses ==
    {[kind |-> "ok", body |-> b] : b \in PicturesBodies}
        \cup {[kind |-> k] : k \in {"okBad", "http", "net"}}
RecordingsResponses ==
    {[kind |-> "ok", body |-> b] : b \in RecordingsBodies}
        \cup {[kind |-> k] : k \in {"okBad", "http", "net"}}

\* response.ok
Is2xx(resp) == resp.kind \in {"ok", "okBad"}
\* picturesData.pictures || []
ListOf(body, field) == IF field \in DOMAIN body THEN body[field] ELSE <<>>
\* Promise.all([fetch, fetch]) rejects with the first fetch that rejects
GalleryRejected(f) == f.pictures.kind = "net" \/ f.recordings.kind = "net"
GalleryPending(f) ==
    (IF f.pictures = Pending THEN 1 ELSE 0) + (IF f.recordings = Pending THEN 1 ELSE 0)
\* the await returns or throws
GallerySettled(f) == GalleryRejected(f) \/ GalleryPending(f) = 0

Init ==
    /\ isStreaming = FALSE
    /\ cameraStatus = NullObj
    /\ isLoading = FALSE
    /\ error = Null
    /\ isServerConnected = FALSE
    /\ isCapturing = FALSE
    /\ lastCapturedImage = NullObj
    /\ captureSuccess = NullObj
    /\ isRecording = FALSE
    /\ recordingDuration = 0
    /\ lastRecording = NullObj
    /\ recordingSuccess = NullObj
    /\ feed = "none"
    /\ modes = <<>>
    /\ currentMode = NullObj
    /\ selectedModeId = ""
    \* the mount effects have run: checkStatus() and fetchModes() are in flight
    /\ modesLoading = TRUE
    /\ isChanging = FALSE
    /\ modeError = Null
    /\ statusReqs = <<StatusReq("poll", FALSE)>>
    /\ cmdReqs = SetToBag({Req("modes")})
    /\ timers = [k \in TimerKinds |-> IF k = "poll" THEN 1 ELSE 0]
    /\ retryOpens = 0
    \* Gallery: the mount effect has run, fetchGalleryData() is awaiting
    /\ galleryData = [pictures |-> <<>>, recordings |-> <<>>]
    /\ galleryIsLoading = TRUE
    /\ galleryError = Null
    /\ galleryFetch = [pictures |-> Pending, recordings |-> Pending]
    /\ galleryOrphans = 0

\* ------------------------------------------------- checkStatus (L317-339)
\* const response = await fetch(.../api/camera/status)
checkStatus(owner, cap) ==
    statusReqs' = Append(statusReqs, StatusReq(owner, cap))

\* checkStatusApply where a failed fetch leaves isServerConnected as it was
checkStatusApply_KeepsConnectivity(o, body) ==
    IF o = "ok"
    THEN /\ cameraStatus' = body
         /\ isServerConnected' = TRUE
         /\ error' = Null
         /\ IF "recording" \in DOMAIN body
            THEN /\ isRecording' = body.recording.recording
                 /\ recordingDuration' = body.recording.duration
            ELSE UNCHANGED <<isRecording, recordingDuration>>
    ELSE /\ error' = IF o \in {"http", "httpMsg"} THEN ErrStatusHttp ELSE ErrStatusNet
         /\ UNCHANGED <<isServerConnected, cameraStatus, isRecording, recordingDuration>>

\* checkStatusApply where a failed fetch resets the status and the recording state
checkStatusApply_ResetsOnFailure(o, body) ==
    IF o = "ok"
    THEN /\ cameraStatus' = body
         /\ isServerConnected' = TRUE
         /\ error' = Null
         /\ IF "recording" \in DOMAIN body
            THEN /\ isRecording' = body.recording.recording
                 /\ recordingDuration' = body.recording.duration
            ELSE UNCHANGED <<isRecording, recordingDuration>>
    ELSE /\ isServerConnected' = FALSE
         /\ error' = IF o \in {"http", "httpMsg"} THEN ErrStatusHttp ELSE ErrStatusNet
         /\ cameraStatus' = NullObj
         /\ isRecording' = FALSE
         /\ recordingDuration' = 0

\* the state the body of checkStatus sets once the fetch has settled
checkStatusApply(o, body) ==
    IF o = "ok"
    THEN /\ cameraStatus' = body
         /\ isServerConnected' = TRUE
         /\ error' = Null
         /\ IF "recording" \in DOMAIN body
            THEN /\ isRecording' = body.recording.recording
                 /\ recordingDuration' = body.recording.duration
            ELSE UNCHANGED <<isRecording, recordingDuration>>
    ELSE /\ isServerConnected' = FALSE
         /\ error' = IF o \in {"http", "httpMsg"} THEN ErrStatusHttp ELSE ErrStatusNet
         /\ UNCHANGED <<cameraStatus, isRecording, recordingDuration>>

\* the status fetch at position i settles with outcome o; the caller that
\* awaited checkStatus() (restartCamera L400-416, handleModeChange L546-554)
\* continues in the same step
checkStatusResolve(i, o, body) ==
    /\ i \in DOMAIN statusReqs
    /\ checkStatusApply(o, body)
    /\ statusReqs' = RemoveAt(MarkEarlier(statusReqs, i), i)
    /\ LET r == statusReqs[i] IN
         /\ isLoading' = IF r.owner = "restart" THEN FALSE ELSE isLoading
         /\ timers' = IF r.owner = "restart" /\ r.cap
                      THEN AddTimer(timers, "restartOpen") ELSE timers
         /\ feed' = IF r.owner = "mode" /\ r.cap /\ imgRefCurrent
                    THEN "loading" ELSE feed
    /\ UNCHANGED <<isStreaming, capVars, lastRecording, recordingSuccess,
                   msVars, cmdReqs, retryOpens>>
    /\ UNCHANGED galVars

\* a poll that is skipped while a command holds a busy flag
pollTick_WhenIdle ==
    /\ mounted
    /\ ~(isLoading \/ isCapturing \/ isChanging)
    /\ StatusLoad < MaxStatus
    /\ checkStatus("poll", FALSE)
    /\ UNCHANGED <<csVars, capVars, recVars, feed, msVars, cmdReqs, timers, retryOpens>>
    /\ UNCHANGED galVars

\* setInterval(checkStatus, 5000) (L560)
pollTick ==
    /\ mounted
    /\ StatusLoad < MaxStatus
    /\ checkStatus("poll", FALSE)
    /\ UNCHANGED <<csVars, capVars, recVars, feed, msVars, cmdReqs, timers, retryOpens>>
    /\ UNCHANGED galVars

\* the Refresh Status button (L728-736)
refreshStatus ==
    /\ mounted
    /\ ~isLoading
    /\ StatusLoad < MaxStatus
    /\ checkStatus("manual", FALSE)
    /\ UNCHANGED <<csVars, capVars, recVars, feed, msVars, cmdReqs, timers, retryOpens>>
    /\ UNCHANGED galVars

\* ---------------------------------------------- startStreaming (L342-367)
\* startStreaming that sets isStreaming before the request is answered
startStreaming_Optimistic ==
    /\ mounted
    /\ ~isStreaming /\ ~(isLoading \/ ~isServerConnected)
    /\ StatusLoad < MaxStatus
    /\ timers["startOpen"] + timers["startCheck"] < MaxTimers
    /\ isLoading' = TRUE
    /\ isStreaming' = TRUE
    /\ error' = Null
    /\ cmdReqs' = Send(Req("start"))
    /\ UNCHANGED <<cameraStatus, isServerConnected, capVars, recVars,
                   feed, msVars, statusReqs, timers, retryOpens>>
    /\ UNCHANGED galVars

startStreaming ==
    /\ mounted
    /\ ~isStreaming /\ ~(isLoading \/ ~isServerConnected)
    /\ StatusLoad < MaxStatus
    /\ timers["startOpen"] + timers["startCheck"] < MaxTimers
    /\ isLoading' = TRUE
    /\ error' = Null
    /\ cmdReqs' = Send(Req("start"))
    /\ UNCHANGED <<isStreaming, cameraStatus, isServerConnected, capVars, recVars,
                   feed, msVars, statusReqs, timers, retryOpens>>
    /\ UNCHANGED galVars

startStreamingResolve(o) ==
    /\ BagIn(Req("start"), cmdReqs)
    /\ cmdReqs' = Settle(Req("start"))
    /\ IF o \in {"ok", "okBad"}
       THEN /\ isStreaming' = TRUE
            /\ timers' = AddTimer(timers, "startOpen")
            /\ UNCHANGED error
       ELSE /\ error' = CASE o = "http" -> ErrStartHttp
                          [] o = "httpMsg" -> ServerMsg
                          [] OTHER -> ErrStartNet
            /\ UNCHANGED <<isStreaming, timers>>
    /\ isLoading' = FALSE
    /\ UNCHANGED <<cameraStatus, isServerConnected, capVars, recVars, feed, msVars,
                   statusReqs, retryOpens>>
    /\ UNCHANGED galVars

\* startOpenTimer without the test of imgRef.current
startOpenTimer_NoRefCheck ==
    /\ timers["startOpen"] > 0
    /\ feed' = "loading"
    /\ timers' = AddTimer(DelTimer(timers, "startOpen"), "startCheck")
    /\ UNCHANGED <<csVars, capVars, recVars, msVars, statusReqs, cmdReqs, retryOpens>>
    /\ UNCHANGED galVars

\* the 1000 ms callback of startStreaming (L351-357)
startOpenTimer ==
    /\ timers["startOpen"] > 0
    /\ feed' = IF imgRefCurrent THEN "loading" ELSE feed
    /\ timers' = AddTimer(DelTimer(timers, "startOpen"), "startCheck")
    /\ UNCHANGED <<csVars, capVars, recVars, msVars, statusReqs, cmdReqs, retryOpens>>
    /\ UNCHANGED galVars

\* setTimeout(checkStatus, 2000) (L356)
startCheckTimer ==
    /\ timers["startCheck"] > 0
    /\ timers' = DelTimer(timers, "startCheck")
    /\ checkStatus("timer", FALSE)
    /\ UNCHANGED <<csVars, capVars, recVars, feed, msVars, cmdReqs, retryOpens>>
    /\ UNCHANGED galVars

\* ----------------------------------------------- stopStreaming (L370-390)
stopStreaming ==
    /\ mounted
    /\ isStreaming /\ ~isLoading
    /\ isLoading' = TRUE
    /\ error' = Null
    /\ cmdReqs' = Send(Req("stop"))
    /\ UNCHANGED <<isStreaming, cameraStatus, isServerConnected, capVars, recVars,
                   feed, msVars, statusReqs, timers, retryOpens>>
    /\ UNCHANGED galVars

\* stopStreamingResolve that clears isStreaming and the feed whatever the answer
stopStreamingResolve_Optimistic(o) ==
    /\ BagIn(Req("stop"), cmdReqs)
    /\ cmdReqs' = Settle(Req("stop"))
    /\ isStreaming' = FALSE
    /\ feed' = "none"
    /\ retryOpens' = 0
    /\ timers' = StaleRetries(timers)
    /\ IF o \in {"ok", "okBad"}
       THEN UNCHANGED error
       ELSE error' = IF o \in {"http", "httpMsg"} THEN ErrStopHttp ELSE ErrStopNet
    /\ isLoading' = FALSE
    /\ UNCHANGED <<cameraStatus, isServerConnected, capVars, recVars, msVars,
                   statusReqs>>
    /\ UNCHANGED galVars

stopStreamingResolve(o) ==
    /\ BagIn(Req("stop"), cmdReqs)
    /\ cmdReqs' = Settle(Req("stop"))
    /\ IF o \in {"ok", "okBad"}
       THEN /\ isStreaming' = FALSE
            /\ feed' = "none"
            /\ retryOpens' = 0
            /\ timers' = StaleRetries(timers)
            /\ UNCHANGED error
       ELSE /\ error' = IF o \in {"http", "httpMsg"} THEN ErrStopHttp ELSE ErrStopNet
            /\ UNCHANGED <<isStreaming, feed, retryOpens, timers>>
    /\ isLoading' = FALSE
    /\ UNCHANGED <<cameraStatus, isServerConnected, capVars, recVars, msVars,
                   statusReqs>>
    /\ UNCHANGED galVars

\* ----------------------------------------------- restartCamera (L393-417)
\* restartCamera behind a button that does not test isServerConnected
restartCamera_NoConnectivityGuard ==
    /\ mounted
    /\ ~isLoading
    /\ StatusLoad < MaxStatus
    /\ timers["restartOpen"] < MaxTimers
    /\ isLoading' = TRUE
    /\ error' = Null
    /\ cmdReqs' = Send([Req("restart") EXCEPT !.cap = isStreaming])
    /\ UNCHANGED <<isStreaming, cameraStatus, isServerConnected, capVars, recVars,
                   feed, msVars, statusReqs, timers, retryOpens>>
    /\ UNCHANGED galVars

restartCamera ==
    /\ mounted
    /\ ~(isLoading \/ ~isServerConnected)
    /\ StatusLoad < MaxStatus
    /\ timers["restartOpen"] < MaxTimers
    /\ isLoading' = TRUE
    /\ error' = Null
    /\ cmdReqs' = Send([Req("restart") EXCEPT !.cap = isStreaming])
    /\ UNCHANGED <<isStreaming, cameraStatus, isServerConnected, capVars, recVars,
                   feed, msVars, statusReqs, timers, retryOpens>>
    /\ UNCHANGED galVars

\* restartCameraResolve without the finally block: a failure leaves isLoading set
restartCameraResolve_NoFinally(r, o) ==
    /\ r \in InFlight("restart")
    /\ cmdReqs' = Settle(r)
    /\ IF o \in {"ok", "okBad"}
       THEN /\ checkStatus("restart", r.cap)
            /\ UNCHANGED error
       ELSE /\ error' = IF o \in {"http", "httpMsg"} THEN ErrRestartHttp ELSE ErrRestartNet
            /\ UNCHANGED statusReqs
    /\ UNCHANGED <<isStreaming, cameraStatus, isLoading, isServerConnected, capVars,
                   recVars, feed, msVars, timers, retryOpens>>
    /\ UNCHANGED galVars

\* restartCameraResolve that calls checkStatus() without awaiting it
restartCameraResolve_NoAwait(r, o) ==
    /\ r \in InFlight("restart")
    /\ cmdReqs' = Settle(r)
    /\ IF o \in {"ok", "okBad"}
       THEN /\ checkStatus("timer", FALSE)
            /\ timers' = IF r.cap THEN AddTimer(timers, "restartOpen") ELSE timers
            /\ UNCHANGED error
       ELSE /\ error' = IF o \in {"http", "httpMsg"} THEN ErrRestartHttp ELSE ErrRestartNet
            /\ UNCHANGED <<statusReqs, timers>>
    /\ isLoading' = FALSE
    /\ UNCHANGED <<isStreaming, cameraStatus, isServerConnected, capVars, recVars,
                   feed, msVars, retryOpens>>
    /\ UNCHANGED galVars

restartCameraResolve(r, o) ==
    /\ r \in InFlight("restart")
    /\ cmdReqs' = Settle(r)
    /\ IF o \in {"ok", "okBad"}
       THEN /\ checkStatus("restart", r.cap)
            /\ UNCHANGED <<error, isLoading>>
       ELSE /\ error' = IF o \in {"http", "httpMsg"} THEN ErrRestartHttp ELSE ErrRestartNet
            /\ isLoading' = FALSE
            /\ UNCHANGED statusReqs
    /\ UNCHANGED <<isStreaming, cameraStatus, isServerConnected, capVars, recVars,
                   feed, msVars, timers, retryOpens>>
    /\ UNCHANGED galVars

\* the 1000 ms callback of restartCamera (L403-407)
restartOpenTimer ==
    /\ timers["restartOpen"] > 0
    /\ timers' = DelTimer(timers, "restartOpen")
    /\ feed' = IF imgRefCurrent THEN "loading" ELSE feed
    /\ UNCHANGED <<csVars, capVars, recVars, msVars, statusReqs, cmdReqs, retryOpens>>
    /\ UNCHANGED galVars

\* ------------------------------------------------ feed <img> (L420-438)
MaxOpens == 3

\* onError of the feed image
handleImageError ==
    /\ mounted
    /\ feed \in {"loading", "loaded"}
    /\ timers["retry"] + timers["retryStale"] < MaxTimers
    /\ IF imgRefCurrent /\ isStreaming
       THEN /\ timers' = AddTimer(timers, "retry")
            /\ feed' = "errored"
            /\ UNCHANGED <<error, isStreaming, retryOpens>>
       ELSE /\ error' = ErrFeed
            /\ isStreaming' = FALSE
            /\ feed' = "none"
            /\ retryOpens' = 0
            /\ timers' = StaleRetries(timers)
    /\ UNCHANGED <<cameraStatus, isLoading, isServerConnected, capVars, recVars,
                   msVars, statusReqs, cmdReqs>>
    /\ UNCHANGED galVars

\* the 2000 ms callback of handleImageError (L424-428); the isStreaming it
\* tests is the one of the closure that scheduled it, which was true
retryTimer ==
    /\ \E kind \in {"retry", "retryStale"} :
          /\ timers[kind] > 0
          /\ timers' = DelTimer(timers, kind)
    /\ IF imgRefCurrent
       THEN /\ feed' = "loading"
            /\ retryOpens' = IF retryOpens < MaxOpens THEN retryOpens + 1 ELSE retryOpens
       ELSE UNCHANGED <<feed, retryOpens>>
    /\ UNCHANGED <<csVars, capVars, recVars, msVars, statusReqs, cmdReqs>>
    /\ UNCHANGED galVars

\* onLoad of the feed image
handleImageLoad ==
    /\ mounted
    /\ feed = "loading"
    /\ feed' = "loaded"
    /\ error' = Null
    /\ retryOpens' = 0
    /\ UNCHANGED <<isStreaming, cameraStatus, isLoading, isServerConnected, capVars,
                   recVars, msVars, statusReqs, cmdReqs, timers>>
    /\ UNCHANGED galVars

\* ---------------------------------------------- capturePicture (L441-474)
\* capturePicture behind a button that does not test isStreaming
capturePicture_NoStreamingGuard ==
    /\ mounted
    /\ ~(isCapturing \/ ~isServerConnected \/ cameraStatus = NullObj)
    /\ timers["clearCapture"] < MaxTimers
    /\ isCapturing' = TRUE
    /\ error' = Null
    /\ captureSuccess' = NullObj
    /\ cmdReqs' = Send(Req("capture"))
    /\ UNCHANGED <<isStreaming, cameraStatus, isLoading, isServerConnected,
                   lastCapturedImage, recVars, feed, msVars, statusReqs, timers,
                   retryOpens>>
    /\ UNCHANGED galVars

capturePicture ==
    /\ mounted
    /\ ~(isCapturing \/ ~isServerConnected \/ cameraStatus = NullObj \/ ~isStreaming)
    /\ timers["clearCapture"] < MaxTimers
    /\ isCapturing' = TRUE
    /\ error' = Null
    /\ captureSuccess' = NullObj
    /\ cmdReqs' = Send(Req("capture"))
    /\ UNCHANGED <<isStreaming, cameraStatus, isLoading, isServerConnected,
                   lastCapturedImage, recVars, feed, msVars, statusReqs, timers,
                   retryOpens>>
    /\ UNCHANGED galVars

capturePictureResolve(o, body) ==
    /\ BagIn(Req("capture"), cmdReqs)
    /\ cmdReqs' = Settle(Req("capture"))
    /\ IF o = "ok"
       THEN /\ lastCapturedImage' = body
            /\ captureSuccess' = [text |-> "Picture captured: ", filename |-> body.filename]
            /\ timers' = AddTimer(timers, "clearCapture")
            /\ UNCHANGED error
       ELSE /\ error' = CASE o = "http" -> ErrCaptureHttp
                          [] o = "httpMsg" -> ServerMsg
                          [] OTHER -> ErrCaptureNet
            /\ UNCHANGED <<lastCapturedImage, captureSuccess, timers>>
    /\ isCapturing' = FALSE
    /\ UNCHANGED <<isStreaming, cameraStatus, isLoading, isServerConnected, recVars,
                   feed, msVars, statusReqs, retryOpens>>
    /\ UNCHANGED galVars

\* setTimeout(() => setCaptureSuccess(null), 5000) (L464)
clearCaptureTimer ==
    /\ timers["clearCapture"] > 0
    /\ timers' = DelTimer(timers, "clearCapture")
    /\ captureSuccess' = NullObj
    /\ UNCHANGED <<csVars, isCapturing, lastCapturedImage, recVars, feed, msVars,
                   statusReqs, cmdReqs, retryOpens>>
    /\ UNCHANGED galVars

\* ---------------------------------------------- startRecording (L477-505)
\* startRecording behind a button that is rendered whatever isRecording is
startRecording_NoRecordingGuard ==
    /\ mounted
    /\ ~(~isServerConnected \/ cameraStatus = NullObj)
    /\ NumInFlight("recStart") + NumInFlight("recStop") < MaxRecReqs
    /\ timers["clearRecStart"] < MaxTimers
    /\ error' = Null
    /\ recordingSuccess' = NullObj
    /\ cmdReqs' = Send(Req("recStart"))
    /\ UNCHANGED <<isStreaming, cameraStatus, isLoading, isServerConnected, capVars,
                   isRecording, recordingDuration, lastRecording, feed, msVars,
                   statusReqs, timers, retryOpens>>
    /\ UNCHANGED galVars

startRecording ==
    /\ mounted
    /\ ~isRecording /\ ~(~isServerConnected \/ cameraStatus = NullObj)
    /\ NumInFlight("recStart") + NumInFlight("recStop") < MaxRecReqs
    /\ timers["clearRecStart"] < MaxTimers
    /\ error' = Null
    /\ recordingSuccess' = NullObj
    /\ cmdReqs' = Send(Req("recStart"))
    /\ UNCHANGED <<isStreaming, cameraStatus, isLoading, isServerConnected, capVars,
                   isRecording, recordingDuration, lastRecording, feed, msVars,
                   statusReqs, timers, retryOpens>>
    /\ UNCHANGED galVars

\* startRecordingResolve without setRecordingDuration(0)
startRecordingResolve_KeepsDuration(o, body) ==
    /\ BagIn(Req("recStart"), cmdReqs)
    /\ cmdReqs' = Settle(Req("recStart"))
    /\ IF o = "ok"
       THEN /\ isRecording' = TRUE
            /\ recordingSuccess' =
                    [text |-> "Recording started: ", filename |-> body.filename]
            /\ timers' = AddTimer(timers, "clearRecStart")
            /\ statusReqs' = MarkStale(statusReqs)
            /\ UNCHANGED error
       ELSE /\ error' = CASE o = "http" -> ErrRecStartHttp
                          [] o = "httpMsg" -> ServerMsg
                          [] OTHER -> ErrRecStartNet
            /\ UNCHANGED <<isRecording, recordingSuccess, timers, statusReqs>>
    /\ UNCHANGED <<isStreaming, cameraStatus, isLoading, isServerConnected, capVars,
                   recordingDuration, lastRecording, feed, msVars, retryOpens>>
    /\ UNCHANGED galVars

startRecordingResolve(o, body) ==
    /\ BagIn(Req("recStart"), cmdReqs)
    /\ cmdReqs' = Settle(Req("recStart"))
    /\ IF o = "ok"
       THEN /\ isRecording' = TRUE
            /\ recordingDuration' = 0
            /\ recordingSuccess' =
                    [text |-> "Recording started: ", filename |-> body.filename]
            /\ timers' = AddTimer(timers, "clearRecStart")
            /\ statusReqs' = MarkStale(statusReqs)
            /\ UNCHANGED error
       ELSE /\ error' = CASE o = "http" -> ErrRecStartHttp
                          [] o = "httpMsg" -> ServerMsg
                          [] OTHER -> ErrRecStartNet
            /\ UNCHANGED <<isRecording, recordingDuration, recordingSuccess, timers,
                           statusReqs>>
    /\ UNCHANGED <<isStreaming, cameraStatus, isLoading, isServerConnected, capVars,
                   lastRecording, feed, msVars, retryOpens>>
    /\ UNCHANGED galVars

\* ----------------------------------------------- stopRecording (L508-541)
stopRecording ==
    /\ mounted
    /\ isRecording
    /\ NumInFlight("recStart") + NumInFlight("recStop") < MaxRecReqs
    /\ timers["clearRecStop"] < MaxTimers
    /\ error' = Null
    /\ recordingSuccess' = NullObj
    /\ cmdReqs' = Send(Req("recStop"))
    /\ UNCHANGED <<isStreaming, cameraStatus, isLoading, isServerConnected, capVars,
                   isRecording, recordingDuration, lastRecording, feed, msVars,
                   statusReqs, timers, retryOpens>>
    /\ UNCHANGED galVars

\* stopRecordingResolve that drops the stored recording when the request fails
stopRecordingResolve_ClearsOnFailure(o, body) ==
    /\ BagIn(Req("recStop"), cmdReqs)
    /\ cmdReqs' = Settle(Req("recStop"))
    /\ IF o = "ok"
       THEN /\ isRecording' = FALSE
            /\ recordingDuration' = 0
            /\ lastRecording' = body
            /\ statusReqs' = MarkStale(statusReqs)
            /\ IF "duration" \in DOMAIN body
               THEN /\ recordingSuccess' =
                         [text |-> "Recording saved: ", filename |-> body.filename,
                          duration |-> body.duration]
                    /\ timers' = AddTimer(timers, "clearRecStop")
                    /\ UNCHANGED <<error, feed>>
               ELSE /\ error' = ErrRecStopNet
                    \* the render that follows throws at L874 and the
                    \* component is unmounted
                    /\ timers' = [timers EXCEPT !["poll"] = 0]
                    /\ feed' = "none"
                    /\ UNCHANGED recordingSuccess
       ELSE /\ error' = CASE o = "http" -> ErrRecStopHttp
                          [] o = "httpMsg" -> ServerMsg
                          [] OTHER -> ErrRecStopNet
            /\ lastRecording' = NullObj
            /\ UNCHANGED <<isRecording, recordingDuration, recordingSuccess, timers,
                           statusReqs, feed>>
    /\ UNCHANGED <<isStreaming, cameraStatus, isLoading, isServerConnected, capVars,
                   msVars, retryOpens>>
    /\ UNCHANGED galVars

\* with a 2xx body that has no numeric duration, result.duration.toFixed(1)
\* (L530) throws after the three setters before it have run; the stored
\* lastRecording then makes the next render throw at
\* lastRecording.duration.toFixed(1) (L874), which unmounts the component
stopRecordingResolve(o, body) ==
    /\ BagIn(Req("recStop"), cmdReqs)
    /\ cmdReqs' = Settle(Req("recStop"))
    /\ IF o = "ok"
       THEN /\ isRecording' = FALSE
            /\ recordingDuration' = 0
            /\ lastRecording' = body
            /\ statusReqs' = MarkStale(statusReqs)
            /\ IF "duration" \in DOMAIN body
               THEN /\ recordingSuccess' =
                         [text |-> "Recording saved: ", filename |-> body.filename,
                          duration |-> body.duration]
                    /\ timers' = AddTimer(timers, "clearRecStop")
                    /\ UNCHANGED <<error, feed>>
               ELSE /\ error' = ErrRecStopNet
                    \* the render that follows throws at L874 and the
                    \* component is unmounted
                    /\ timers' = [timers EXCEPT !["poll"] = 0]
                    /\ feed' = "none"
                    /\ UNCHANGED recordingSuccess
       ELSE /\ error' = CASE o = "http" -> ErrRecStopHttp
                          [] o = "httpMsg" -> ServerMsg
                          [] OTHER -> ErrRecStopNet
            /\ UNCHANGED <<isRecording, recordingDuration, lastRecording,
                           recordingSuccess, timers, statusReqs, feed>>
    /\ UNCHANGED <<isStreaming, cameraStatus, isLoading, isServerConnected, capVars,
                   msVars, retryOpens>>
    /\ UNCHANGED galVars

\* setTimeout(() => setRecordingSuccess(null), 3000 / 5000) (L497, L533)
clearRecordingTimer(kind) ==
    /\ kind \in {"clearRecStart", "clearRecStop"}
    /\ timers[kind] > 0
    /\ timers' = DelTimer(timers, kind)
    /\ recordingSuccess' = NullObj
    /\ UNCHANGED <<csVars, capVars, isRecording, recordingDuration, lastRecording,
                   feed, msVars, statusReqs, cmdReqs, retryOpens>>
    /\ UNCHANGED galVars

\* the 1000 ms interval that runs while isRecording (L565-575)
recordingTick ==
    /\ mounted
    /\ isRecording
    /\ recordingDuration < MaxDuration
    /\ recordingDuration' = recordingDuration + 1
    /\ UNCHANGED <<csVars, capVars, isRecording, lastRecording, recordingSuccess,
                   feed, msVars, statusReqs, cmdReqs, timers, retryOpens>>
    /\ UNCHANGED galVars

\* --------------------------------- CameraModeSelector (CameraModeSelector.tsx)
\* the disabled prop CameraStream passes down (Gallery.tsx L902)
selectorDisabled == ~isServerConnected \/ isLoading

\* Array.prototype.find: the first element whose index is in hits, or NullObj
FirstOf(list, hits) ==
    IF hits = {}
    THEN NullObj
    ELSE list[CHOOSE j \in hits : \A k \in hits : j <= k]

SameDims(mode, cur) ==
    /\ mode.width = cur.width
    /\ mode.height = cur.height
    /\ mode.framerate = cur.framerate

\* available_modes.find(mode => same width, height and framerate) (L54-58)
FindByDims(list, cur) ==
    FirstOf(list, {j \in DOMAIN list : SameDims(list[j], cur)})

\* modes.find(mode => mode.id === modeId) (L92)
FindById(list, modeId) ==
    FirstOf(list, {j \in DOMAIN list : list[j].id = modeId})

\* a Refresh Modes button that stays enabled during a mode change
fetchModes_WhileChanging ==
    /\ mounted
    /\ ~modesLoading
    /\ ~(modesLoading \/ selectorDisabled)
    /\ modesLoading' = TRUE
    /\ modeError' = Null
    /\ cmdReqs' = Send(Req("modes"))
    /\ UNCHANGED <<csVars, capVars, recVars, feed, modes, currentMode, selectedModeId,
                   isChanging, statusReqs, timers, retryOpens>>
    /\ UNCHANGED galVars

\* the Refresh Modes button (L228-243); the mount effect is part of Init
fetchModes ==
    /\ mounted
    /\ ~modesLoading
    /\ ~(modesLoading \/ isChanging \/ selectorDisabled)
    /\ modesLoading' = TRUE
    /\ modeError' = Null
    /\ cmdReqs' = Send(Req("modes"))
    /\ UNCHANGED <<csVars, capVars, recVars, feed, modes, currentMode, selectedModeId,
                   isChanging, statusReqs, timers, retryOpens>>
    /\ UNCHANGED galVars

fetchModesResolve(o, body) ==
    /\ BagIn(Req("modes"), cmdReqs)
    /\ cmdReqs' = Settle(Req("modes"))
    /\ IF o = "ok"
       THEN LET current == FindByDims(body.available_modes, body.current_mode)
            IN /\ modes' = body.available_modes
               /\ IF current # NullObj
                  THEN /\ currentMode' = current
                       /\ selectedModeId' = current.id
                  ELSE UNCHANGED <<currentMode, selectedModeId>>
               /\ UNCHANGED modeError
       ELSE /\ modeError' = IF o \in {"http", "httpMsg"} THEN ErrModesHttp ELSE ErrModesNet
            /\ UNCHANGED <<modes, currentMode, selectedModeId>>
    /\ modesLoading' = FALSE
    /\ UNCHANGED <<csVars, capVars, recVars, feed, isChanging, statusReqs, timers,
                   retryOpens>>
    /\ UNCHANGED galVars

\* changeMode without the guard clause of L76
changeMode_NoEarlyReturn(modeId) ==
    /\ mounted
    /\ ~modesLoading
    /\ ~(selectorDisabled \/ isChanging)
    /\ modeId = "" \/ \E j \in DOMAIN modes : modes[j].id = modeId
    /\ StatusLoad < MaxStatus
    /\ isChanging' = TRUE
    /\ modeError' = Null
    /\ cmdReqs' = Send([Req("mode") EXCEPT !.modeId = modeId, !.cap = isStreaming])
    /\ UNCHANGED <<csVars, capVars, recVars, feed, modes, currentMode,
                   selectedModeId, modesLoading, statusReqs, timers, retryOpens>>
    /\ UNCHANGED galVars

\* onValueChange of the Select (L177-181), shown once the modes are loaded;
\* the items are the loaded modes, the empty string is the value of a Select
\* with nothing selected
changeMode(modeId) ==
    /\ mounted
    /\ ~modesLoading
    /\ ~(selectorDisabled \/ isChanging)
    /\ modeId = "" \/ \E j \in DOMAIN modes : modes[j].id = modeId
    /\ IF modeId = "" \/ (currentMode # NullObj /\ modeId = currentMode.id)
       THEN UNCHANGED vars
       ELSE /\ StatusLoad < MaxStatus
            /\ isChanging' = TRUE
            /\ modeError' = Null
            /\ cmdReqs' = Send([Req("mode") EXCEPT !.modeId = modeId, !.cap = isStreaming])
            /\ UNCHANGED <<csVars, capVars, recVars, feed, modes, currentMode,
                           selectedModeId, modesLoading, statusReqs, timers, retryOpens>>
    /\ UNCHANGED galVars

\* changeModeResolve that shows the requested mode as current whatever the answer
changeModeResolve_Optimistic(r, o) ==
    /\ r \in InFlight("mode")
    /\ cmdReqs' = Settle(r)
    /\ LET newMode == FindById(modes, r.modeId)
       IN /\ IF newMode # NullObj
             THEN /\ currentMode' = newMode
                  /\ selectedModeId' = r.modeId
             ELSE UNCHANGED <<currentMode, selectedModeId>>
          /\ IF o = "ok" /\ newMode # NullObj
             THEN checkStatus("mode", r.cap)
             ELSE UNCHANGED statusReqs
    /\ modeError' = CASE o = "ok" -> modeError
                       [] o = "http" -> ErrModeHttp
                       [] o = "httpMsg" -> ServerMsg
                       [] OTHER -> ErrModeNet
    /\ isChanging' = FALSE
    /\ UNCHANGED <<csVars, capVars, recVars, feed, modes, modesLoading, timers,
                   retryOpens>>
    /\ UNCHANGED galVars

\* on success the parent's handleModeChange (Gallery.tsx L544-555) is called
\* and runs up to its await of checkStatus()
changeModeResolve(r, o) ==
    /\ r \in InFlight("mode")
    /\ cmdReqs' = Settle(r)
    /\ IF o = "ok"
       THEN LET newMode == FindById(modes, r.modeId)
            IN IF newMode # NullObj
               THEN /\ currentMode' = newMode
                    /\ selectedModeId' = r.modeId
                    /\ checkStatus("mode", r.cap)
                    /\ UNCHANGED modeError
               ELSE UNCHANGED <<currentMode, selectedModeId, statusReqs, modeError>>
       ELSE /\ modeError' = CASE o = "http" -> ErrModeHttp
                              [] o = "httpMsg" -> ServerMsg
                              [] OTHER -> ErrModeNet
            /\ UNCHANGED <<currentMode, selectedModeId, statusReqs>>
    /\ isChanging' = FALSE
    /\ UNCHANGED <<csVars, capVars, recVars, feed, modes, modesLoading, timers,
                   retryOpens>>
    /\ UNCHANGED galVars

\* ------------------------------------------------------- unmount (L561)
\* cleanup of the mount effect: clearInterval(interval); the component and its
\* <img> leave the page.  Timeouts and fetches still pending are not
\* cancelled: their callbacks and continuations run later.
unmount ==
    /\ mounted
    /\ timers' = [timers EXCEPT !["poll"] = 0]
    /\ feed' = "none"
    /\ UNCHANGED <<csVars, capVars, recVars, msVars, statusReqs, cmdReqs, retryOpens>>
    /\ UNCHANGED galVars

\* ----------------------------------------------- Gallery (Gallery.tsx L23-87)
\* Refresh button (disabled={isLoading}) -> fetchGalleryData up to its await
fetchGalleryData ==
    /\ ~galleryIsLoading
    /\ galleryOrphans < MaxOrphans
    /\ galleryIsLoading' = TRUE
    /\ galleryError' = Null
    /\ galleryFetch' = [pictures |-> Pending, recordings |-> Pending]
    /\ UNCHANGED <<galleryData, galleryOrphans>>
    /\ UNCHANGED <<csVars, capVars, recVars, feed, msVars, statusReqs, cmdReqs,
                   timers, retryOpens>>

\* one of the two fetches of the awaited Promise.all answers
galleryResponse(which, resp) ==
    /\ galleryFetch # NullObj
    /\ ~GalleryRejected(galleryFetch)
    /\ galleryFetch[which] = Pending
    /\ galleryFetch' = [galleryFetch EXCEPT ![which] = resp]
    /\ UNCHANGED <<galleryData, galleryIsLoading, galleryError, galleryOrphans>>
    /\ UNCHANGED <<csVars, capVars, recVars, feed, msVars, statusReqs, cmdReqs,
                   timers, retryOpens>>

\* the rest of fetchGalleryData once Promise.all has settled, with a variant
\* that stores whichever list arrived
fetchGalleryDataResolve_PartialUpdate ==
    /\ galleryFetch # NullObj
    /\ GallerySettled(galleryFetch)
    /\ IF galleryFetch.pictures.kind = "ok"
          THEN /\ galleryData' = [galleryData EXCEPT
                                    !.pictures = ListOf(galleryFetch.pictures.body, "pictures")]
               /\ galleryError' = galleryError
          ELSE /\ galleryError' = ErrGalleryConnect
               /\ UNCHANGED galleryData
    /\ galleryIsLoading' = FALSE
    /\ galleryFetch' = NullObj
    /\ galleryOrphans' = galleryOrphans + GalleryPending(galleryFetch)
    /\ UNCHANGED <<csVars, capVars, recVars, feed, msVars, statusReqs, cmdReqs,
                   timers, retryOpens>>

fetchGalleryDataResolve ==
    /\ galleryFetch # NullObj
    /\ GallerySettled(galleryFetch)
    /\ IF GalleryRejected(galleryFetch)
          \* catch: a fetch rejected
          THEN /\ galleryError' = ErrGalleryConnect
               /\ UNCHANGED galleryData
          ELSE IF Is2xx(galleryFetch.pictures) /\ Is2xx(galleryFetch.recordings)
                 THEN IF galleryFetch.pictures.kind = "ok" /\ galleryFetch.recordings.kind = "ok"
                        THEN /\ galleryData' =
                                  [pictures   |-> ListOf(galleryFetch.pictures.body, "pictures"),
                                   recordings |-> ListOf(galleryFetch.recordings.body, "recordings")]
                             /\ galleryError' = galleryError
                        \* catch: response.json() rejected
                        ELSE /\ galleryError' = ErrGalleryConnect
                             /\ UNCHANGED galleryData
                 ELSE /\ galleryError' = ErrGalleryFetch
                      /\ UNCHANGED galleryData
    \* finally
    /\ galleryIsLoading' = FALSE
    /\ galleryFetch' = NullObj
    /\ galleryOrphans' = galleryOrphans + GalleryPending(galleryFetch)
    /\ UNCHANGED <<csVars, capVars, recVars, feed, msVars, statusReqs, cmdReqs,
                   timers, retryOpens>>

\* the fetch of an ended call answers: the settled Promise.all ignores it
galleryOrphanResponse ==
    /\ galleryOrphans > 0
    /\ galleryOrphans' = galleryOrphans - 1
    /\ UNCHANGED <<galleryData, galleryIsLoading, galleryError, galleryFetch>>
    /\ UNCHANGED <<csVars, capVars, recVars, feed, msVars, statusReqs, cmdReqs,
                   timers, retryOpens>>

\* ------------------------------------------------------------ specification
\* The whole client: every handler, timer and response.
Next ==
    \/ pollTick
    \/ refreshStatus
    \/ \E i \in DOMAIN statusReqs, o \in Outcomes, body \in StatusBodies :
           checkStatusResolve(i, o, body)
    \/ startStreaming
    \/ \E o \in {"ok", "http", "httpMsg", "net"} : startStreamingResolve(o)
    \/ startOpenTimer
    \/ startCheckTimer
    \/ stopStreaming
    \/ \E o \in {"ok", "http", "net"} : stopStreamingResolve(o)
    \/ restartCamera
    \/ \E r \in InFlight("restart"), o \in {"ok", "http", "net"} : restartCameraResolve(r, o)
    \/ restartOpenTimer
    \/ handleImageError
    \/ retryTimer
    \/ handleImageLoad
    \/ capturePicture
    \/ \E o \in Outcomes, body \in CaptureBodies : capturePictureResolve(o, body)
    \/ clearCaptureTimer
    \/ startRecording
    \/ \E o \in Outcomes, body \in RecStartBodies : startRecordingResolve(o, body)
    \/ stopRecording
    \/ \E o \in Outcomes, body \in RecStopBodies : stopRecordingResolve(o, body)
    \/ \E kind \in {"clearRecStart", "clearRecStop"} : clearRecordingTimer(kind)
    \/ recordingTick
    \/ fetchModes
    \/ \E o \in Outcomes, body \in ModesBodies : fetchModesResolve(o, body)
    \/ \E modeId \in ModeInputs : changeMode(modeId)
    \/ \E r \in InFlight("mode"), o \in Outcomes : changeModeResolve(r, o)
    \/ unmount
    \/ fetchGalleryData
    \/ \E resp \in PicturesResponses : galleryResponse("pictures", resp)
    \/ \E resp \in RecordingsResponses : galleryResponse("recordings", resp)
    \/ fetchGalleryDataResolve
    \/ galleryOrphanResponse

Spec == Init /\ [][Next]_vars

\* The status poll and the recording commands; every fetch is answered 2xx,
\* non-2xx or not at all, a status fetch with any of the status bodies.
NextStatus ==
    \/ pollTick
    \/ refreshStatus
    \/ \E i \in DOMAIN statusReqs, o \in {"ok", "http", "net"}, body \in StatusBodies :
           checkStatusResolve(i, o, body)
    \/ startRecording
    \/ \E o \in {"ok", "http", "net"} : startRecordingResolve(o, StartedV1)
    \/ stopRecording
    \/ \E o \in {"ok", "http", "net"}, body \in RecStopBodies : stopRecordingResolve(o, body)
    \/ \E kind \in {"clearRecStart", "clearRecStop"} : clearRecordingTimer(kind)
    \/ recordingTick

SpecStatus == Init /\ [][NextStatus]_vars

\* The six camera commands, each answered 2xx, non-2xx (with or without an
\* error text) or not at all; the
\* status fetches are the one of the mount effect and those the commands issue.
NextCommands ==
    \/ \E i \in DOMAIN statusReqs, o \in {"ok", "net"} : checkStatusResolve(i, o, StatusIdle)
    \/ startStreaming
    \/ \E o \in {"ok", "http", "httpMsg", "net"} : startStreamingResolve(o)
    \/ startOpenTimer
    \/ startCheckTimer
    \/ stopStreaming
    \/ \E o \in {"ok", "http", "net"} : stopStreamingResolve(o)
    \/ restartCamera
    \/ \E r \in InFlight("restart"), o \in {"ok", "http", "net"} : restartCameraResolve(r, o)
    \/ restartOpenTimer
    \/ capturePicture
    \/ \E o \in {"ok", "http", "httpMsg", "net"} : capturePictureResolve(o, CapturedP1)
    \/ clearCaptureTimer
    \/ startRecording
    \/ \E o \in {"ok", "http", "httpMsg", "net"} : startRecordingResolve(o, StartedV1)
    \/ stopRecording
    \/ \E o \in {"ok", "http", "httpMsg", "net"} : stopRecordingResolve(o, SavedV1)
    \/ \E kind \in {"clearRecStart", "clearRecStop"} : clearRecordingTimer(kind)

SpecCommands == Init /\ [][NextCommands]_vars

\* The commands that hold a busy flag (isLoading, isCapturing, isChanging).
NextBusy ==
    \/ pollTick
    \/ \E i \in DOMAIN statusReqs, o \in {"ok", "net"} : checkStatusResolve(i, o, StatusIdle)
    \/ startStreaming
    \/ \E o \in {"ok", "http", "net"} : startStreamingResolve(o)
    \/ startOpenTimer
    \/ startCheckTimer
    \/ stopStreaming
    \/ \E o \in {"ok", "http", "net"} : stopStreamingResolve(o)
    \/ restartCamera
    \/ \E r \in InFlight("restart"), o \in {"ok", "http", "net"} : restartCameraResolve(r, o)
    \/ restartOpenTimer
    \/ capturePicture
    \/ \E o \in {"ok", "http", "net"}, body \in CaptureBodies : capturePictureResolve(o, body)
    \/ clearCaptureTimer
    \/ \E o \in {"ok", "net"}, body \in ModesBodies : fetchModesResolve(o, body)
    \/ \E modeId \in ModeInputs : changeMode(modeId)
    \/ \E r \in InFlight("mode"), o \in {"ok", "http", "net"} : changeModeResolve(r, o)

SpecBusy == Init /\ [][NextBusy]_vars

\* The feed image: the stream commands, their timers, the image events and
\* the reload after a mode change.
NextFeed ==
    \/ pollTick
    \/ \E i \in DOMAIN statusReqs, o \in {"ok", "net"} : checkStatusResolve(i, o, StatusIdle)
    \/ startStreaming
    \/ \E o \in {"ok", "net"} : startStreamingResolve(o)
    \/ startOpenTimer
    \/ startCheckTimer
    \/ stopStreaming
    \/ \E o \in {"ok", "net"} : stopStreamingResolve(o)
    \/ restartCamera
    \/ \E r \in InFlight("restart"), o \in {"ok", "net"} : restartCameraResolve(r, o)
    \/ restartOpenTimer
    \/ handleImageError
    \/ retryTimer
    \/ handleImageLoad
    \/ \E o \in {"ok", "net"}, body \in ModesBodies : fetchModesResolve(o, body)
    \/ \E modeId \in ModeInputs : changeMode(modeId)
    \/ \E r \in InFlight("mode"), o \in {"ok", "net"} : changeModeResolve(r, o)

SpecFeed == Init /\ [][NextFeed]_vars

\* Recording on a running stream: the stream is started, recordings are
\* started (answered with either filename, or failing) and stopped.
NextRecord ==
    \/ \E i \in DOMAIN statusReqs, o \in {"ok", "net"} : checkStatusResolve(i, o, StatusIdle)
    \/ startStreaming
    \/ \E o \in {"ok", "net"} : startStreamingResolve(o)
    \/ startOpenTimer
    \/ startCheckTimer
    \/ startRecording
    \/ \E o \in {"ok", "http", "net"}, body \in RecStartBodies : startRecordingResolve(o, body)
    \/ stopRecording
    \/ \E o \in {"ok", "net"} : stopRecordingResolve(o, SavedV1)
    \/ \E kind \in {"clearRecStart", "clearRecStop"} : clearRecordingTimer(kind)
    \/ recordingTick

SpecRecord == Init /\ [][NextRecord]_vars

\* The poll and the stream commands, each fetch answered 2xx, non-2xx or not
\* at all.
NextRecover ==
    \/ pollTick
    \/ \E i \in DOMAIN statusReqs, o \in {"ok", "http", "net"} :
           checkStatusResolve(i, o, StatusIdle)
    \/ startStreaming
    \/ \E o \in {"ok", "http", "net"} : startStreamingResolve(o)
    \/ startOpenTimer
    \/ startCheckTimer
    \/ stopStreaming
    \/ \E o \in {"ok", "http", "net"} : stopStreamingResolve(o)
    \/ restartCamera
    \/ \E r \in InFlight("restart"), o \in {"ok", "http", "net"} : restartCameraResolve(r, o)
    \/ restartOpenTimer

SpecRecover == Init /\ [][NextRecover]_vars

\* The same, with what the code itself schedules: the 5000 ms interval keeps
\* ticking (L560) and every timeout fires (L351-357, L403-407).  A fetch is
\* issued without a timeout or an abort signal (L319, L347, L375, L398), so
\* nothing makes it settle: no fairness is stated for the answers.
FairRecover ==
    /\ SpecRecover
    /\ WF_vars(pollTick)
    /\ WF_vars(startOpenTimer)
    /\ WF_vars(startCheckTimer)
    /\ WF_vars(restartOpenTimer)

\* Restart on a running or stopped stream, where the device may report
\* streaming=false in any status answer.
NextRestart ==
    \/ pollTick
    \/ \E i \in DOMAIN statusReqs, o \in {"ok", "net"}, body \in {StatusIdle, StatusBare} :
           checkStatusResolve(i, o, body)
    \/ startStreaming
    \/ \E o \in {"ok", "net"} : startStreamingResolve(o)
    \/ startOpenTimer
    \/ startCheckTimer
    \/ restartCamera
    \/ \E r \in InFlight("restart"), o \in {"ok", "net"} : restartCameraResolve(r, o)
    \/ restartOpenTimer

SpecRestart == Init /\ [][NextRestart]_vars

\* Captures and recordings on a running stream, answered with any of the
\* response bodies or failing.
NextResults ==
    \/ \E i \in DOMAIN statusReqs, o \in {"ok", "net"} : checkStatusResolve(i, o, StatusIdle)
    \/ startStreaming
    \/ \E o \in {"ok", "net"} : startStreamingResolve(o)
    \/ startOpenTimer
    \/ startCheckTimer
    \/ capturePicture
    \/ \E o \in {"ok", "http", "net"}, body \in CaptureBodies : capturePictureResolve(o, body)
    \/ clearCaptureTimer
    \/ startRecording
    \/ \E o \in {"ok", "net"} : startRecordingResolve(o, StartedV1)
    \/ stopRecording
    \/ \E o \in {"ok", "http", "net"}, body \in RecStopBodies : stopRecordingResolve(o, body)
    \/ \E kind \in {"clearRecStart", "clearRecStop"} : clearRecordingTimer(kind)
    \/ recordingTick

SpecResults == Init /\ [][NextResults]_vars

\* The mode selector: the mode list is fetched on mount and on Refresh Modes,
\* modes are selected, and the stream is started so that the selector is
\* disabled at times.
NextModes ==
    \/ \E i \in DOMAIN statusReqs, o \in {"ok", "net"} : checkStatusResolve(i, o, StatusIdle)
    \/ startStreaming
    \/ \E o \in {"ok", "net"} : startStreamingResolve(o)
    \/ startOpenTimer
    \/ startCheckTimer
    \/ fetchModes
    \/ \E o \in {"ok", "http", "net"}, body \in ModesBodies : fetchModesResolve(o, body)
    \/ \E modeId \in ModeInputs : changeMode(modeId)
    \/ \E r \in InFlight("mode"), o \in {"ok", "http", "net"} : changeModeResolve(r, o)

SpecModes == Init /\ [][NextModes]_vars

\* The poll and the stream commands up to and after the component is
\* unmounted.
NextTeardown ==
    \/ pollTick
    \/ \E i \in DOMAIN statusReqs, o \in {"ok", "net"} : checkStatusResolve(i, o, StatusIdle)
    \/ startStreaming
    \/ \E o \in {"ok", "net"} : startStreamingResolve(o)
    \/ startOpenTimer
    \/ startCheckTimer
    \/ restartCamera
    \/ \E r \in InFlight("restart"), o \in {"ok", "net"} : restartCameraResolve(r, o)
    \/ restartOpenTimer
    \/ unmount

SpecTeardown == Init /\ [][NextTeardown]_vars

\* The Gallery component alone.
NextGallery ==
    \/ fetchGalleryData
    \/ \E resp \in PicturesResponses : galleryResponse("pictures", resp)
    \/ \E resp \in RecordingsResponses : galleryResponse("recordings", resp)
    \/ fetchGalleryDataResolve
    \/ galleryOrphanResponse

SpecGallery == Init /\ [][NextGallery]_vars

\* The busy-flag commands, where every fetch in flight is eventually answered
\* (status fetches oldest first).
FairBusy ==
    /\ SpecBusy
    /\ WF_vars(\E o \in {"ok", "net"} : checkStatusResolve(1, o, StatusIdle))
    /\ WF_vars(\E o \in {"ok", "http", "net"} : startStreamingResolve(o))
    /\ WF_vars(\E o \in {"ok", "http", "net"} : stopStreamingResolve(o))
    /\ WF_vars(\E r \in InFlight("restart"), o \in {"ok", "http", "net"} :
                  restartCameraResolve(r, o))
    /\ WF_vars(\E o \in {"ok", "http", "net"}, body \in CaptureBodies :
                  capturePictureResolve(o, body))
    /\ WF_vars(\E r \in InFlight("mode"), o \in {"ok", "http", "net"} :
                  changeModeResolve(r, o))

\* ================================================================== claims
\* the fetches of user commands in flight (status polls and the mode-list
\* fetch are not commands)
CommandKinds == {"start", "stop", "restart", "capture", "recStart", "recStop", "mode"}
CommandsInFlight == SumCopies({r \in BagToSet(cmdReqs) : r.kind \in CommandKinds})
Failures == {"http", "httpMsg", "net"}
\* a step in which a status fetch settled
StatusSettled == Len(statusReqs') < Len(statusReqs)

\* C1: in every reachable state at most one user command (start stream, stop
\* stream, restart, capture, start recording, stop recording, change mode) has
\* an HTTP request in flight.
C1_CommandsSerialized == CommandsInFlight <= 1

\* C2: the response of a status fetch that was issued before another status
\* fetch whose response has already arrived is dropped: it changes neither
\* cameraStatus nor connectivity nor the recording state.
C2_StaleStatusDropped ==
    [][StatusSettled =>
       \A i \in DOMAIN statusReqs, o \in Outcomes, body \in StatusBodies :
          (statusReqs[i].superseded /\ checkStatusResolve(i, o, body))
              => UNCHANGED <<cameraStatus, isServerConnected, isRecording,
                             recordingDuration>>]_vars

\* C3: the response of a status fetch issued before a recording command was
\* confirmed does not change isRecording or recordingDuration.
C3_PollKeepsConfirmedRecording ==
    [][StatusSettled =>
       \A i \in DOMAIN statusReqs, o \in Outcomes, body \in StatusBodies :
          (statusReqs[i].stale /\ checkStatusResolve(i, o, body))
              => UNCHANGED <<isRecording, recordingDuration>>]_vars

\* C4: after a feed error the feed is re-opened by the retry at most once
\* until a load succeeds; a second error in a row ends the stream instead.
C4_RetryBounded == retryOpens <= 1

\* C5: connectivity follows each completed status fetch: it is false until
\* the first successful fetch, every failed fetch sets it false and leaves
\* cameraStatus, every successful fetch sets it true, replaces cameraStatus
\* with the response and takes the recording state the response carries.
C5_ConnectivityFollowsFetch ==
    /\ [](isServerConnected => cameraStatus # NullObj)
    /\ [][(isServerConnected' # isServerConnected \/ cameraStatus' # cameraStatus)
             => \E i \in DOMAIN statusReqs : statusReqs' = RemoveAt(MarkEarlier(statusReqs, i), i)]_vars
    /\ [][StatusSettled =>
           \A i \in DOMAIN statusReqs, o \in {"ok", "http", "net"}, body \in StatusBodies :
             checkStatusResolve(i, o, body) =>
                IF o = "ok"
                THEN /\ isServerConnected'
                     /\ cameraStatus' = body
                     /\ "recording" \in DOMAIN body =>
                            /\ isRecording' = body.recording.recording
                            /\ recordingDuration' = body.recording.duration
                ELSE /\ ~isServerConnected'
                     /\ cameraStatus' = cameraStatus]_vars
C5_Reconnected ==
    /\ isServerConnected
    /\ cameraStatus = StatusRecording
    /\ isRecording /\ recordingDuration = 1
    /\ error = Null

\* C6: a capture request is sent only while isStreaming is true; while it is
\* false the capture command is not accepted.
C6_CaptureNeedsStreaming ==
    /\ [](~isStreaming => ~ENABLED capturePicture)
    /\ [][NumInFlight("capture")' > NumInFlight("capture") => isStreaming]_vars
C6_CaptureSent == NumInFlight("capture") = 1 /\ isStreaming

\* C7: a start-recording request is sent only while isStreaming is true.
C7_RecordNeedsStreaming ==
    [][NumInFlight("recStart")' > NumInFlight("recStart") => isStreaming]_vars

\* a step in which the fetch of a command settled
CommandSettled == CommandsInFlight' < CommandsInFlight
\* what a failed command leaves behind: the flags as they were, an error to
\* show, and nothing new in flight or scheduled
AfterFailure ==
    /\ isStreaming' = isStreaming
    /\ isRecording' = isRecording
    /\ error' # Null
    /\ statusReqs' = statusReqs
    /\ \A r \in BagToSet(cmdReqs') : CopiesIn(r, cmdReqs') <= CopiesIn(r, cmdReqs)
    /\ timers' = timers

\* C8: when the fetch of start stream, stop stream, restart, capture, start
\* recording or stop recording fails (non-2xx or network error), the handler
\* leaves isStreaming and isRecording as they were, clears its busy flag, sets
\* a non-null error and sends or schedules nothing.
C8_FailureLeavesState ==
    [][CommandSettled =>
        \A o \in Failures :
          /\ startStreamingResolve(o) => (AfterFailure /\ ~isLoading')
          /\ stopStreamingResolve(o) => (AfterFailure /\ ~isLoading')
          /\ (\E r \in InFlight("restart") : restartCameraResolve(r, o))
                => (AfterFailure /\ ~isLoading')
          /\ (\E body \in CaptureBodies : capturePictureResolve(o, body))
                => (AfterFailure /\ ~isCapturing')
          /\ (\E body \in RecStartBodies : startRecordingResolve(o, body)) => AfterFailure
          /\ (\E body \in RecStopBodies : stopRecordingResolve(o, body)) => AfterFailure]_vars
C8_StopFailed ==
    /\ error = ErrStopHttp
    /\ isStreaming /\ ~isLoading
    /\ NumInFlight("stop") = 0

\* the fetches that hold isLoading: start, stop, restart and the status
\* refresh restartCamera awaits
LoadingCalls ==
    NumInFlight("start") + NumInFlight("stop") + NumInFlight("restart")
    + Cardinality({i \in DOMAIN statusReqs : statusReqs[i].owner = "restart"})

\* C9: each busy flag is set exactly while the call of its command is in
\* flight (set on acceptance, not cleared before the call resolves, cleared
\* when it resolves), and when every call is eventually answered each busy
\* flag is eventually clear again.
C9_BusyUntilResolved ==
    /\ [](/\ LoadingCalls <= 1
          /\ isLoading = (LoadingCalls = 1)
          /\ NumInFlight("capture") <= 1
          /\ isCapturing = (NumInFlight("capture") = 1)
          /\ NumInFlight("mode") <= 1
          /\ isChanging = (NumInFlight("mode") = 1))
    /\ (isLoading ~> ~isLoading)
    /\ (isCapturing ~> ~isCapturing)
    /\ (isChanging ~> ~isChanging)
C9_RestartAwaitsRefresh ==
    /\ isLoading
    /\ NumInFlight("restart") = 0
    /\ \E i \in DOMAIN statusReqs : statusReqs[i].owner = "restart"

\* C10: the feed image has the stream URL assigned only while isStreaming is
\* true; no delayed callback opens a feed after streaming has gone false.
C10_FeedOnlyWhileStreaming == feed # "none" => isStreaming
C10_DelayedOpenAfterStop ==
    /\ ~isStreaming
    /\ feed = "none"
    /\ timers["startCheck"] = 1
    /\ timers["restartOpen"] = 0

\* the device state the client last observed: connected and the last status
\* says streaming
ObservedStreaming ==
    /\ isServerConnected
    /\ cameraStatus # NullObj
    /\ cameraStatus.streaming

\* C11: when the observed device state goes from streaming to not streaming (a
\* status response says streaming=false, or a status fetch fails and
\* connectivity goes false), the feed is released in the same step: isStreaming
\* is false and the feed image has no source.
C11_ReleaseOnObservedStop ==
    [][(StatusSettled /\ ObservedStreaming /\ ~ObservedStreaming')
           => (~isStreaming' /\ feed' = "none")]_vars

\* C12: a retry callback whose stream was stopped after it was scheduled
\* (whether or not a stream was started again since) does nothing when it
\* fires: it leaves the feed image as it is.
C12_StaleRetryNoOp ==
    [][timers'["retryStale"] < timers["retryStale"] => feed' = feed]_vars

\* C13: a successful restart issues a status fetch and stays busy until that
\* fetch has settled and its result is applied (isLoading is cleared in the
\* step that applies it, not before); a failed restart issues no status fetch
\* and clears isLoading at once.
C13_RestartRefreshesBeforeIdle ==
    /\ [](\A i \in DOMAIN statusReqs : statusReqs[i].owner = "restart" => isLoading)
    /\ [][CommandSettled =>
           \A r \in InFlight("restart"), o \in {"ok", "http", "net"} :
             restartCameraResolve(r, o) =>
                IF o = "ok"
                THEN /\ statusReqs' = Append(statusReqs, StatusReq("restart", r.cap))
                     /\ isLoading'
                ELSE /\ statusReqs' = statusReqs
                     /\ ~isLoading']_vars
    /\ [][StatusSettled =>
           \A i \in DOMAIN statusReqs, o \in {"ok", "net"}, body \in StatusBodies :
             (statusReqs[i].owner = "restart" /\ checkStatusResolve(i, o, body)) =>
                /\ ~isLoading'
                /\ isServerConnected' = (o = "ok")
                /\ o = "ok" => cameraStatus' = body]_vars
C13_RefreshBehindPoll ==
    /\ Len(statusReqs) = 2
    /\ statusReqs[1].owner = "poll"
    /\ statusReqs[2].owner = "restart" /\ statusReqs[2].cap
    /\ isLoading /\ isStreaming

\* C14: changeMode called with the id of the current mode, or with the empty
\* string, changes nothing (no request, currentMode, selectedModeId, isChanging
\* and the errors as they were, no status refresh by the parent's callback):
\* every mode request sent carries a non-empty id that is not the current mode's.
C14_SameModeNoOp ==
    /\ [][\A modeId \in ModeInputs :
            (/\ modeId = "" \/ (currentMode # NullObj /\ modeId = currentMode.id)
             /\ changeMode(modeId))
                => UNCHANGED vars]_vars
    /\ [][NumInFlight("mode")' > NumInFlight("mode") =>
            \E r \in InFlight("mode")' :
               /\ CopiesIn(r, cmdReqs') > CopiesIn(r, cmdReqs)
               /\ r.modeId # ""
               /\ currentMode = NullObj \/ r.modeId # currentMode.id]_vars
C14_ChangedModeSelectable ==
    /\ currentMode = Mode2 /\ selectedModeId = "m2"
    /\ ~modesLoading /\ ~selectorDisabled /\ ~isChanging
    /\ NumInFlight("mode") = 0
    /\ ENABLED changeMode("m2")

\* C15: a stop-recording request is sent only while isRecording is true and a
\* start-recording request only while it is false; in the other state the
\* command is not offered.
C15_RecordingPreconditions ==
    /\ [](isRecording => ~ENABLED startRecording)
    /\ [](~isRecording => ~ENABLED stopRecording)
    /\ [][/\ NumInFlight("recStart")' > NumInFlight("recStart") => ~isRecording
          /\ NumInFlight("recStop")' > NumInFlight("recStop") => isRecording]_vars
C15_StopSentWhileRecording ==
    /\ NumInFlight("recStop") = 1
    /\ isRecording /\ recordingDuration = 1
    /\ cameraStatus = StatusIdle

\* C16: while streaming with recording inactive a start-recording command is
\* accepted; accepting it puts one request in flight and changes no recording
\* state; when the server confirms, the request is settled, isRecording is
\* true, recordingDuration is 0 and the filename shown is the response's.
C16_StartRecordScenario ==
    /\ []((/\ isStreaming /\ ~isRecording
           /\ isServerConnected /\ cameraStatus # NullObj
           /\ NumInFlight("recStart") + NumInFlight("recStop") < MaxRecReqs
           /\ timers["clearRecStart"] < MaxTimers)
              => ENABLED startRecording)
    /\ [][NumInFlight("recStart")' > NumInFlight("recStart") =>
            /\ NumInFlight("recStart")' = NumInFlight("recStart") + 1
            /\ UNCHANGED <<isRecording, recordingDuration>>]_vars
    /\ [][CommandSettled =>
            \A body \in RecStartBodies :
               startRecordingResolve("ok", body) =>
                  /\ NumInFlight("recStart")' = NumInFlight("recStart") - 1
                  /\ isRecording' /\ recordingDuration' = 0
                  /\ recordingSuccess'.filename = body.filename]_vars
C16_SecondFilenameShown ==
    /\ isStreaming /\ isRecording /\ recordingDuration = 0
    /\ recordingSuccess = [text |-> "Recording started: ", filename |-> "v2.mp4"]
    /\ NumInFlight("recStart") = 0

\* the busy flags of the commands
busyFlags == <<isLoading, isCapturing, isChanging>>

\* C17: the 5000 ms poll issues its status fetch whatever commands are in
\* flight (only the bound on concurrent status fetches limits it), and neither
\* issuing a poll nor settling one changes isLoading, isCapturing or isChanging.
C17_PollNeverBlocked ==
    /\ [](StatusLoad < MaxStatus => ENABLED pollTick)
    /\ [][statusReqs' = Append(statusReqs, StatusReq("poll", FALSE))
             => UNCHANGED busyFlags]_vars
    /\ [][StatusSettled =>
           \A i \in DOMAIN statusReqs, o \in {"ok", "net"}, body \in StatusBodies :
             (statusReqs[i].owner = "poll" /\ checkStatusResolve(i, o, body))
                 => UNCHANGED busyFlags]_vars
C17_PollDueWhileAllBusy ==
    /\ isLoading /\ isCapturing /\ isChanging
    /\ CommandsInFlight = 3
    /\ ENABLED pollTick

\* a step in which a fetch settled with a failure (the device was not reachable)
FetchFailed ==
    \E o \in {"http", "httpMsg", "net"} :
       \/ \E i \in DOMAIN statusReqs : checkStatusResolve(i, o, StatusIdle)
       \/ startStreamingResolve(o)
       \/ stopStreamingResolve(o)
       \/ \E r \in InFlight("restart") : restartCameraResolve(r, o)
\* the disabled expression of the Start Stream and Restart buttons is false
StreamCommandsAcceptable == ~(isLoading \/ ~isServerConnected)

\* a step in which a status fetch is answered 2xx (the device is reachable)
StatusAnswered ==
    \E i \in DOMAIN statusReqs, body \in StatusBodies : checkStatusResolve(i, "ok", body)

\* C18: whatever failed before, if the device becomes reachable and stays so
\* (from some point on no fetch fails, and status fetches are answered 2xx
\* again and again) then, with no user action, isServerConnected becomes true
\* and stays true, and the Start Stream and Restart buttons are enabled again
\* and again.
C18_AutomaticRecovery ==
    \/ []<><<FetchFailed>>_vars
    \/ <>[][~StatusAnswered]_vars
    \/ /\ <>[]isServerConnected
       /\ []<>StreamCommandsAcceptable

\* C19: a failed status fetch sets isServerConnected false and the error text
\* and changes nothing else: cameraStatus (with its mode and recording
\* fields), isRecording and recordingDuration keep their last values, as does
\* every other piece of state.
C19_FailedFetchKeepsSnapshot ==
    [][StatusSettled =>
         \A i \in DOMAIN statusReqs, o \in {"http", "net"}, body \in StatusBodies :
            checkStatusResolve(i, o, body) =>
               /\ ~isServerConnected'
               /\ error' = (IF o = "http" THEN ErrStatusHttp ELSE ErrStatusNet)
               /\ UNCHANGED <<cameraStatus, isRecording, recordingDuration, isStreaming,
                              isLoading, capVars, lastRecording, recordingSuccess,
                              feed, msVars, cmdReqs, timers, retryOpens>>]_vars
C19_StaleSnapshotShown ==
    /\ ~isServerConnected /\ error = ErrStatusNet
    /\ cameraStatus = StatusRecording
    /\ isRecording /\ recordingDuration = 1
    /\ statusReqs = <<>>

\* a step that issues a status fetch or schedules the timeout chain of
\* startStreaming that ends in one
RefreshTriggered ==
    \/ Len(statusReqs') > Len(statusReqs)
    \/ timers'["startOpen"] > timers["startOpen"]

\* C20: the step in which a command (start stream, stop stream, restart,
\* capture, start recording, stop recording, change mode) is confirmed by a
\* 2xx answer triggers a status refresh.
C20_RefreshAfterEveryCommand ==
    [][CommandSettled =>
         ((\/ startStreamingResolve("ok")
           \/ stopStreamingResolve("ok")
           \/ \E r \in InFlight("restart") : restartCameraResolve(r, "ok")
           \/ \E body \in CaptureBodies : capturePictureResolve("ok", body)
           \/ \E body \in RecStartBodies : startRecordingResolve("ok", body)
           \/ \E body \in RecStopBodies : stopRecordingResolve("ok", body)
           \/ \E r \in InFlight("mode") : changeModeResolve(r, "ok"))
              => RefreshTriggered)]_vars

\* C21: isStreaming goes from false to true only in the step in which a
\* start-stream request is answered 2xx: not when the request is sent, not on
\* a failed answer, not when a status fetch settles.
C21_StreamingConfirmedOnly ==
    [][(~isStreaming /\ isStreaming') =>
          /\ NumInFlight("start")' = NumInFlight("start") - 1
          /\ startStreamingResolve("ok")
          /\ UNCHANGED statusReqs]_vars
C21_StartJustConfirmed ==
    /\ isStreaming /\ ~isLoading
    /\ NumInFlight("start") = 0
    /\ timers["startOpen"] = 1
    /\ feed = "none"

\* C22: when the status refresh of a successful restart reports
\* streaming=false, isStreaming is false afterwards and the restart schedules
\* no re-opening of the feed.
C22_RestartTakesRefreshedStreaming ==
    [][StatusSettled =>
         \A i \in DOMAIN statusReqs, body \in StatusBodies :
            (/\ statusReqs[i].owner = "restart"
             /\ ~body.streaming
             /\ checkStatusResolve(i, "ok", body))
                => (~isStreaming' /\ timers'["restartOpen"] = timers["restartOpen"])]_vars

\* C23: a stop-recording request answered 2xx leaves isRecording false,
\* recordingDuration 0 and lastRecording equal to the fields of that response;
\* a capture answered 2xx leaves lastCapturedImage equal to the fields of that
\* response; a failed stop-recording or capture leaves the stored result (and
\* the recording state) as it was.
C23_ResultIsServerResult ==
    [][CommandSettled =>
         /\ \A o \in {"ok", "http", "net"}, body \in RecStopBodies :
               stopRecordingResolve(o, body) =>
                  IF o = "ok"
                  THEN /\ ~isRecording' /\ recordingDuration' = 0
                       /\ lastRecording' = body
                  ELSE UNCHANGED <<lastRecording, isRecording, recordingDuration>>
         /\ \A o \in {"ok", "http", "net"}, body \in CaptureBodies :
               capturePictureResolve(o, body) =>
                  IF o = "ok"
                  THEN lastCapturedImage' = body
                  ELSE UNCHANGED lastCapturedImage]_vars
C23_StopFailedResultKept ==
    /\ lastRecording = SavedV1
    /\ lastCapturedImage = CapturedP2
    /\ isRecording /\ recordingDuration = 1
    /\ error = ErrRecStopHttp
    /\ NumInFlight("recStop") = 0

\* C24: a command handler that sets an error message when its request settles
\* applies none of its success changes in that step: isStreaming, the
\* recording state, the stored results and the success messages stay as they
\* were (in particular for a 2xx stop-recording answer without a duration).
C24_SuccessXorError ==
    [][(CommandSettled /\ error' # error) =>
          UNCHANGED <<isStreaming, isRecording, recordingDuration, lastRecording,
                      lastCapturedImage, captureSuccess, recordingSuccess>>]_vars

\* C25: when a mode-change request settles: on a 2xx answer for a mode of the
\* loaded list, currentMode and selectedModeId become that mode and the
\* parent's callback runs once (it issues one status fetch); on a 2xx answer
\* for an id not in the list nothing changes; on a failed answer currentMode
\* and selectedModeId stay, an error is set and the parent's callback does not
\* run.  In each case isChanging is cleared.
C25_ChangeModeOutcome ==
    [][CommandSettled =>
         \A r \in InFlight("mode"), o \in {"ok", "http", "net"} :
            changeModeResolve(r, o) =>
               /\ ~isChanging'
               /\ IF o = "ok" /\ FindById(modes, r.modeId) # NullObj
                  THEN /\ currentMode' = FindById(modes, r.modeId)
                       /\ currentMode'.id = r.modeId
                       /\ selectedModeId' = r.modeId
                       /\ statusReqs' = Append(statusReqs, StatusReq("mode", r.cap))
                       /\ modeError' = modeError
                  ELSE /\ UNCHANGED <<currentMode, selectedModeId, statusReqs>>
                       /\ IF o = "ok" THEN modeError' = modeError
                          ELSE modeError' = (IF o = "http" THEN ErrModeHttp ELSE ErrModeNet)]_vars
C25_FailedChangeKeepsMode ==
    /\ currentMode = Mode2 /\ selectedModeId = "m2"
    /\ modeError = ErrModeHttp
    /\ ~isChanging /\ NumInFlight("mode") = 0
    /\ \A i \in DOMAIN statusReqs : statusReqs[i].owner # "mode"

\* C26: a mode-list fetch and a mode change are never in flight together, at
\* most one of each is in flight, and so the mode-list answer that sets
\* currentMode is never one that was requested before a mode change that has
\* been confirmed since.
C26_ModeFetchAndChangeExclusive ==
    /\ [](/\ NumInFlight("modes") + NumInFlight("mode") <= 1
          /\ modesLoading = (NumInFlight("modes") = 1)
          /\ isChanging = (NumInFlight("mode") = 1))
    /\ [][NumInFlight("mode")' < NumInFlight("mode")
             => (NumInFlight("modes") = 0 /\ NumInFlight("modes")' = 0)]_vars
C26_RefreshAfterChange ==
    /\ NumInFlight("modes") = 1 /\ modesLoading
    /\ currentMode = Mode2
    /\ NumInFlight("mode") = 0

\* C27: a start-stream or restart request is sent only from a state with
\* isServerConnected true and no start, stop or restart in flight; a
\* stop-stream request is sent only from a state with isStreaming true and no
\* start, stop or restart in flight, and the stop command is accepted in every
\* such state whatever the connectivity.
C27_StreamCommandPreconditions ==
    /\ []((isStreaming /\ LoadingCalls = 0) => ENABLED stopStreaming)
    /\ [](~isServerConnected => (~ENABLED startStreaming /\ ~ENABLED restartCamera))
    /\ [][/\ NumInFlight("start")' > NumInFlight("start")
               => (isServerConnected /\ LoadingCalls = 0 /\ ~isStreaming)
          /\ NumInFlight("restart")' > NumInFlight("restart")
               => (isServerConnected /\ LoadingCalls = 0)
          /\ NumInFlight("stop")' > NumInFlight("stop")
               => (isStreaming /\ LoadingCalls = 0)]_vars
C27_StopOfferedWhileDisconnected ==
    /\ ~isServerConnected /\ isStreaming
    /\ LoadingCalls = 0
    /\ ENABLED stopStreaming
    /\ ~ENABLED restartCamera

\* C28: once the component is unmounted no status fetch is issued any more,
\* neither by the poll nor by a timeout that was pending at the unmount.
C28_NoFetchAfterUnmount ==
    [][~mounted => Len(statusReqs') <= Len(statusReqs)]_vars

\* C29: the timeout that start recording scheduled to clear its message does
\* not clear the message of a stop recording confirmed since, and the timeout
\* of stop recording does not clear the message of a later start recording.
C29_TimerClearsOwnMessage ==
    [][/\ (/\ timers'["clearRecStart"] < timers["clearRecStart"]
           /\ recordingSuccess # NullObj
           /\ recordingSuccess.text = "Recording saved: ")
              => recordingSuccess' = recordingSuccess
       /\ (/\ timers'["clearRecStop"] < timers["clearRecStop"]
           /\ recordingSuccess # NullObj
           /\ recordingSuccess.text = "Recording started: ")
              => recordingSuccess' = recordingSuccess]_vars

\* C30: fetchGalleryData replaces galleryData only when both requests returned
\* 2xx, and then both lists come from that fetch; when a request fails or is
\* non-2xx galleryData is kept and an error is set; isLoading is cleared
\* whenever the call ends, and Refresh starts no call while one is awaiting.
C30_GalleryAllOrNothing ==
    [][/\ galleryData' # galleryData
            => /\ galleryFetch # NullObj /\ galleryFetch' = NullObj
               /\ ~GalleryRejected(galleryFetch)
               /\ Is2xx(galleryFetch.pictures) /\ Is2xx(galleryFetch.recordings)
       /\ (galleryFetch # NullObj /\ galleryFetch' = NullObj)
            => /\ ~galleryIsLoading'
               /\ (/\ galleryFetch.pictures.kind = "ok"
                   /\ galleryFetch.recordings.kind = "ok")
                    => /\ galleryData'.pictures =
                              ListOf(galleryFetch.pictures.body, "pictures")
                       /\ galleryData'.recordings =
                              ListOf(galleryFetch.recordings.body, "recordings")
               /\ (\/ GalleryRejected(galleryFetch)
                   \/ ~Is2xx(galleryFetch.pictures)
                   \/ ~Is2xx(galleryFetch.recordings))
                    => /\ galleryData' = galleryData
                       /\ galleryError' \in {ErrGalleryFetch, ErrGalleryConnect}
       /\ galleryFetch # NullObj => (galleryIsLoading /\ ~ENABLED fetchGalleryData)]_vars
C30_FailedRefreshKeepsData ==
    /\ galleryFetch = NullObj
    /\ ~galleryIsLoading
    /\ galleryError = ErrGalleryFetch
    /\ galleryData.pictures = <<"p1.jpg", "p2.jpg">>
    /\ galleryData.recordings = <<"v1.mp4">>

====
